---- MODULE Spec2Model ----
(***************************************************************************)
(* Webhook-driven call / conversation lifecycle of the voice assistant.    *)
(*                                                                         *)
(* The persisted state is the three tables (calls, conversations,          *)
(* voice_profiles).  Every action is one HTTP request handled from receipt *)
(* to response: the webhook endpoint of src/api/webhooks/twilio.py, the    *)
(* CallHandler method it calls, and the commits that method performs.      *)
(* The outcome of every external call a request makes (database,           *)
(* completion provider, synthesis provider) is an input of the action.     *)
(* A failed database operation aborts the request's transaction: whatever  *)
(* the request had not committed before it is not persisted.               *)
(***************************************************************************)
EXTENDS Naturals, Sequences, FiniteSets

VARIABLES
    calls,          \* table "calls": sequence of rows, a row's id is its index
    conversations,  \* table "conversations": sequence of rows
    voice_profiles, \* table "voice_profiles": set of rows
    settings,       \* configuration read at start-up, never written
    last,           \* the request handled last: its inputs, the outcomes of
                    \* its external calls, and the response it returned
    pre,            \* the tables as they were when that request arrived
    events,         \* number of requests handled since the initial state
    turns           \* speech-gathered requests handled concurrently: what each
                    \* one's own database session has read and done so far

vars == <<calls, conversations, voice_profiles, settings, last, pre, events,
          turns>>

----------------------------------------------------------------------------
\* Bounds of the exploration.

\* Requests handled in one behaviour.
MaxEvents == 3

\* Speech-gathered requests in flight at the same time.
MaxConcurrent == 2

\* Requests followed after a session that is already under way.
MaxLater == 2

\* Python's None, for the optional string columns and form fields.
None == "None"

\* The test `is not None` in place of truthiness: "" passes it.
Truthy_not_none(s) == s # None

\* Python truthiness of an optional string: None and "" are falsy.
Truthy(s) == s # None /\ s # ""

\* Session ids the telephony provider hands out.
Sids == {"CA123", "CA456"}

FromNumber == "+1555"
ToNumber == "+1800"
TwilioPhoneNumber == "+1900"

\* Recognised speech posted to /gather (Form(None): the field may be absent).
SpeechResults == {None, "", "Necesito una cita"}

\* CallStatus values posted to /status.
StatusValues == {"completed", "busy", "failed", "no-answer", "canceled"}

\* CallDuration is posted as text (Form(None)): its decimal digits, the empty
\* tuple for an absent or empty field.
CallDurations == {<< >>, <<4, 2>>}

RecordingUrls == {None, "https://api.twilio.com/rec1"}

\* The status callbacks posted: a completed call with or without duration and
\* recording, the other terminal statuses with neither.
StatusEvents ==
    [status : {"completed"}, duration : CallDurations, recording : RecordingUrls]
    \cup [status : StatusValues \ {"completed"}, duration : {<< >>},
          recording : {None}]

VoiceIds == {"voice1"}

----------------------------------------------------------------------------
\* Fixed texts of the source.

Greeting == "Hola! Soy tu asistente virtual. En que puedo ayudarte hoy?"
DefaultGreeting == "Hello! I am your AI assistant. How can I help you today?"
NoInputGoodbye == "I didn't receive any input. Goodbye!"
ThankYouGoodbye == "Thank you for calling. Goodbye!"
TechnicalProblem == "Lo siento, hay un problema tecnico. Por favor, llama mas tarde."
PleaseRepeat == "Disculpa, tuve un problema. Puedes repetir?"
NotHeard == "No te escuche. Puedes repetir por favor?"
FallbackResponse == "Disculpa, tuve un problema tecnico. Podrias repetir lo que dijiste?"
SummaryUnavailable == "Resumen no disponible"
SystemPrompt == "Eres un asistente virtual profesional para una empresa."
CompanyName == "Tu Empresa"

\* What the completion provider answers when it answers with text.
ProviderReply == "Claro, te ayudo con la cita."
ProviderSummary == "El cliente pidio una cita."
ProviderIntent == "appointment_scheduling"
ProviderSentiment == "positive"

----------------------------------------------------------------------------
\* Call-control markup: the sequence of verbs of the <Response> document.

Say(text) == [verb |-> "Say", body |-> text]
Play(url) == [verb |-> "Play", body |-> url]
Gather(nested) == [verb |-> "Gather", body |-> nested]
Hangup == [verb |-> "Hangup", body |-> None]
Json(status) == [verb |-> "Json", body |-> status]

generate_greeting_twiml(message) ==
    LET greeting == IF Truthy(message) THEN message ELSE DefaultGreeting
    IN  << Gather(greeting), Say(NoInputGoodbye), Hangup >>

\* The reply markup that neither plays nor speaks anything.
generate_response_twiml_silent(message, audio_url, continue_conversation) ==
    IF continue_conversation
    THEN << Gather(None) >>
    ELSE << Say(ThankYouGoodbye), Hangup >>

generate_response_twiml(message, audio_url, continue_conversation) ==
    << IF Truthy(audio_url) THEN Play(audio_url) ELSE Say(message) >>
    \o (IF continue_conversation
        THEN << Gather(None) >>
        ELSE << Say(ThankYouGoodbye), Hangup >>)

\* A hangup markup whose hangup verb was forgotten.
generate_hangup_twiml_no_hangup(message) ==
    IF Truthy(message) THEN << Say(message) >> ELSE << >>

generate_hangup_twiml(message) ==
    (IF Truthy(message) THEN << Say(message) >> ELSE << >>) \o << Hangup >>

\* The markup the /gather endpoint returns itself when no speech was posted.
NoSpeechTwiml == << Say(NotHeard), Gather(None), Hangup >>

----------------------------------------------------------------------------
\* Rows.

\* Optional[int]: None is the empty tuple, a value v is <<v>>.
NoDuration == << >>

Call(call_sid, direction, from_number, to_number, status) ==
    [twilio_call_sid |-> call_sid, direction |-> direction,
     from_number |-> from_number, to_number |-> to_number,
     status |-> status, duration |-> NoDuration, recording_url |-> None]

Conversation(call_id, messages) ==
    [call_id |-> call_id, messages |-> messages,
     summary |-> None, intent |-> None, sentiment |-> None]

VoiceProfile(voice_id) == [elevenlabs_voice_id |-> voice_id, is_active |-> TRUE]

\* The column without its unique constraint.
UniqueViolation_unconstrained(rows, call_sid) == FALSE

\* calls.twilio_call_sid is declared unique: an INSERT of a session id that a
\* row already carries is rejected by the database when it is flushed.
UniqueViolation(rows, call_sid) ==
    \E i \in DOMAIN rows : rows[i].twilio_call_sid = call_sid

\* The query without its where clause: whichever Call comes first.
SelectCall_any(rows, call_sid) == IF rows # << >> THEN 1 ELSE 0

\* The query that looks among the calls not yet completed only.
SelectCall_active(rows, call_sid) ==
    IF \E i \in DOMAIN rows : /\ rows[i].twilio_call_sid = call_sid
                              /\ rows[i].status # "completed"
    THEN CHOOSE i \in DOMAIN rows : /\ rows[i].twilio_call_sid = call_sid
                                    /\ rows[i].status # "completed"
    ELSE 0

\* select(Call).where(Call.twilio_call_sid == call_sid), scalar_one_or_none():
\* the id of the row, 0 for no row.
SelectCall(rows, call_sid) ==
    IF \E i \in DOMAIN rows : rows[i].twilio_call_sid = call_sid
    THEN CHOOSE i \in DOMAIN rows : rows[i].twilio_call_sid = call_sid
    ELSE 0

\* The query without its where clause: whichever Conversation comes first.
SelectConversation_any(rows, call_id) == IF rows # << >> THEN 1 ELSE 0

\* select(Conversation).where(Conversation.call_id == call_id),
\* scalar_one_or_none(): the index of the row, 0 for no row.
SelectConversation(rows, call_id) ==
    IF \E i \in DOMAIN rows : rows[i].call_id = call_id
    THEN CHOOSE i \in DOMAIN rows : rows[i].call_id = call_id
    ELSE 0

\* Conversation.add_message: append (role, content) stamped with the time.
add_message(messages, role, content, now) ==
    Append(messages, [role |-> role, content |-> content, timestamp |-> now])

\* Conversation.get_messages_for_llm: role/content pairs, timestamps dropped.
get_messages_for_llm(messages) ==
    [i \in DOMAIN messages |->
        [role |-> messages[i].role, content |-> messages[i].content]]

----------------------------------------------------------------------------
\* Completion client (OpenAIService) and the agent on top of it.
\* An outcome is what the provider did with one request: "ok" (a text),
\* "empty" (a response without content) or "error" (the SDK raised).

Outcomes == {"ok", "empty", "error"}

\* chat_completion: [raised, text]; `content or ""` turns no content into "".
chat_completion(outcome, text) ==
    IF outcome = "error" THEN [raised |-> TRUE, text |-> ""]
    ELSE [raised |-> FALSE, text |-> IF outcome = "ok" THEN text ELSE ""]

\* PhoneAgent._format_context for the context the orchestrator passes.
format_context(caller_number, company_name) ==
    << "Numero: ", caller_number, ", Empresa: ", company_name >>

\* The message list PhoneAgent.generate_response sends to the provider.
build_messages(user_message, conversation_history, caller_number) ==
    << [role |-> "system", content |-> <<SystemPrompt>>] >>
    \o [i \in DOMAIN conversation_history |->
          [role |-> conversation_history[i].role,
           content |-> <<conversation_history[i].content>>]]
    \o << [role |-> "system",
           content |-> <<"Contexto adicional: ">>
                       \o format_context(caller_number, CompanyName)] >>
    \o << [role |-> "user", content |-> <<user_message>>] >>

\* The agent without its fallback: a failed completion gives no text.
generate_response_no_fallback(outcome) ==
    chat_completion(outcome, ProviderReply).text

\* PhoneAgent.generate_response: any exception becomes the fallback text.
generate_response(outcome) ==
    LET r == chat_completion(outcome, ProviderReply)
    IN  IF r.raised THEN FallbackResponse ELSE r.text

\* The classification that lets the failure out, as its docstring says.
detect_intent_raising(outcome) ==
    IF outcome = "ok"
    THEN [raised |-> FALSE, intent |-> ProviderIntent, confidence |-> 9]
    ELSE [raised |-> TRUE, intent |-> None, confidence |-> 0]

\* OpenAIService.detect_intent: the provider's JSON parsed, or, when the
\* request raised or its result did not parse (any outcome but "ok"), the
\* default built in the except branch.  Confidences are in tenths.
detect_intent(outcome) ==
    IF outcome = "ok"
    THEN [raised |-> FALSE, intent |-> ProviderIntent, confidence |-> 9]
    ELSE [raised |-> FALSE, intent |-> "other", confidence |-> 0]

\* OpenAIService.analyze_sentiment, in the same way.
analyze_sentiment(outcome) ==
    IF outcome = "ok"
    THEN [raised |-> FALSE, sentiment |-> ProviderSentiment, confidence |-> 9]
    ELSE [raised |-> FALSE, sentiment |-> "neutral", confidence |-> 5]

\* The summary without its placeholder: a failed completion gives no text.
generate_summary_no_placeholder(outcome) ==
    chat_completion(outcome, ProviderSummary).text

\* CallHandler._generate_summary: the provider's text, the placeholder when
\* the request raised.
generate_summary(outcome) ==
    LET r == chat_completion(outcome, ProviderSummary)
    IN  IF r.raised THEN SummaryUnavailable ELSE r.text

\* CallHandler._save_audio: the storage URL of the call's audio.
save_audio(call_sid) ==
    CASE call_sid = "CA123" -> "https://storage.example.com/audio/CA123.mp3"
      [] call_sid = "CA456" -> "https://storage.example.com/audio/CA456.mp3"
      [] OTHER -> "https://storage.example.com/audio/.mp3"

\* CallHandler._get_active_voice_profile: a row with is_active (limit 1), or
\* None; a failing query is swallowed and gives None as well.
get_active_voice_profile(profiles, outcome) ==
    IF outcome = "ok" /\ \E p \in profiles : p.is_active
    THEN (CHOOSE p \in profiles : p.is_active).elevenlabs_voice_id
    ELSE None

\* The synthesis that asks the provider without a voice id.
text_to_speech_any_voice(voice_id, default_voice_id, outcome) == outcome = "ok"

\* ElevenLabsService.text_to_speech: TRUE when audio comes back; it raises
\* when no voice id is given or configured, or when the provider fails.
text_to_speech(voice_id, default_voice_id, outcome) ==
    LET voice_to_use == IF Truthy(voice_id) THEN voice_id ELSE default_voice_id
    IN  Truthy(voice_to_use) /\ outcome = "ok"

----------------------------------------------------------------------------
\* CallHandler.  A handler takes the tables as its session reads them (db),
\* the request's arguments and the outcomes of its external calls (env); it
\* gives the tables as persisted when it returns, the markup it returns, and
\* `used`: env with "-" for every external call it never made.

NotUsed == "-"

\* No external call made.
NoEnv ==
    [fail |-> NotUsed, db |-> NotUsed, completion |-> NotUsed,
     intent |-> NotUsed, sentiment |-> NotUsed, profile |-> NotUsed,
     tts |-> NotUsed, summary |-> NotUsed, twilio |-> NotUsed]

\* The Conversation row that references the first Call of the table.
new_conversation_first_call(rows) == Conversation(1, << >>)

\* The Conversation row handle_incoming_call builds for the Call it has just
\* inserted: Conversation(call_id=call.id, messages=[]).
new_conversation(rows) == Conversation(Len(rows), << >>)

\* The session that keeps what it had pending when it is closed.
rollback_keeps_pending(committed, pending) == pending

\* A session that ends without a successful commit (the commit raised, or the
\* process died): the rows stay as committed, what was pending is dropped.
rollback(committed, pending) == committed

\* The Call row built with the status left to the column's default.
inbound_call_default_status(call_sid, from_number, to_number) ==
    Call(call_sid, "inbound", from_number, to_number, "initiated")

\* The Call row handle_incoming_call builds.
inbound_call(call_sid, from_number, to_number) ==
    Call(call_sid, "inbound", from_number, to_number, "in-progress")

\* The step of handle_incoming_call that the environment makes raise.
IncomingFailures == {"none", "call_insert", "conv_insert", "greeting"}

\* The handler that updates the Call row a session id already has, putting
\* it back to in-progress, instead of inserting a second one.
handle_incoming_call_upsert(call_sid, from_number, to_number, db, fail) ==
    LET call_id == SelectCall(db.calls, call_sid)
        callOk == fail # "call_insert"
        calls1 == IF ~callOk THEN db.calls
                  ELSE IF call_id = 0
                  THEN Append(db.calls, inbound_call(call_sid, from_number, to_number))
                  ELSE [db.calls EXCEPT ![call_id].status = "in-progress"]
        convOk == callOk /\ fail # "conv_insert"
        convs1 == IF convOk /\ call_id = 0
                  THEN Append(db.conversations, Conversation(Len(calls1), << >>))
                  ELSE db.conversations
        ok == convOk /\ fail # "greeting"
    IN  [calls |-> calls1,
         conversations |-> convs1,
         twiml |-> IF ok THEN generate_greeting_twiml(Greeting)
                   ELSE generate_hangup_twiml(TechnicalProblem),
         used |-> [NoEnv EXCEPT !.fail = fail]]

\* The handler with one commit for both rows: a Conversation insert that
\* fails takes the Call row with it.
handle_incoming_call_one_commit(call_sid, from_number, to_number, db, fail) ==
    LET call == inbound_call(call_sid, from_number, to_number)
        unique == UniqueViolation(db.calls, call_sid)
        callOk == fail # "call_insert" /\ ~unique
        convOk == callOk /\ fail # "conv_insert"
        calls1 == IF convOk THEN Append(db.calls, call) ELSE db.calls
        convs1 == IF convOk
                  THEN Append(db.conversations, new_conversation(calls1))
                  ELSE db.conversations
        ok == convOk /\ fail # "greeting"
    IN  [calls |-> calls1,
         conversations |-> convs1,
         twiml |-> IF ok THEN generate_greeting_twiml(Greeting)
                   ELSE generate_hangup_twiml(TechnicalProblem),
         used |-> [NoEnv EXCEPT !.fail =
                            IF fail = "call_insert" THEN "call_insert"
                            ELSE IF unique THEN "unique"
                            ELSE fail]]

handle_incoming_call(call_sid, from_number, to_number, db, fail) ==
    LET call == inbound_call(call_sid, from_number, to_number)
        unique == UniqueViolation(db.calls, call_sid)
        callOk == fail # "call_insert" /\ ~unique
        calls1 == IF callOk THEN Append(db.calls, call) ELSE db.calls
        convOk == callOk /\ fail # "conv_insert"
        convs1 == IF convOk
                  THEN Append(db.conversations, new_conversation(calls1))
                  ELSE db.conversations
        ok == convOk /\ fail # "greeting"
    IN  [calls |-> calls1,
         conversations |-> convs1,
         twiml |-> IF ok THEN generate_greeting_twiml(Greeting)
                   ELSE generate_hangup_twiml(TechnicalProblem),
         \* the step that raised: "unique" is the insert the database
         \* rejected for the session id's uniqueness
         used |-> [NoEnv EXCEPT !.fail =
                            IF fail = "call_insert" THEN "call_insert"
                            ELSE IF unique THEN "unique"
                            ELSE fail]]

\* The turn that stores the reply and forgets the utterance.
append_turn_reply_only(messages, speech_result, ai_response, now) ==
    add_message(messages, "assistant", ai_response, now)

\* The two messages a turn of handle_user_speech adds: the utterance as a
\* user message, then the reply as an assistant message.
append_turn(messages, speech_result, ai_response, now) ==
    add_message(add_message(messages, "user", speech_result, now),
                "assistant", ai_response, now)

\* The turn stored only when its reply could be synthesised: the commit
\* placed after the synthesis.
commit_after_synthesis(committed, pending, audio) ==
    IF audio THEN pending ELSE committed

\* What handle_user_speech has persisted when it returns from a turn whose
\* commit succeeded: the commit precedes the voice-profile query and the
\* synthesis, so the turn is stored whether audio came back or not.
commit_before_synthesis(committed, pending, audio) == pending

\* Outcomes of the external calls of handle_user_speech.
\*   db: the database operation that raises, "ok" for none;
\*   completion, intent, sentiment: the three completion-provider requests;
\*   profile: the voice-profile query; tts: the synthesis request.
\* db = "crash" is the process dying while the turn awaits the completion
\* provider, its only suspension point before the commit.
\* A request that stops early makes only the first of these calls: with no
\* Call row it runs one query, with no Conversation row two.
SpeechEnvs(db, call_sid) ==
    LET call_id == SelectCall(db.calls, call_sid)
    IN  IF call_id = 0
        THEN {[NoEnv EXCEPT !.db = d] : d \in {"ok", "call_select"}}
        ELSE IF SelectConversation(db.conversations, call_id) = 0
        THEN {[NoEnv EXCEPT !.db = d] : d \in {"ok", "call_select", "conv_select"}}
        ELSE {[NoEnv EXCEPT !.db = d] :
                     d \in {"call_select", "conv_select", "crash"}}
             \cup {[NoEnv EXCEPT !.db = "commit", !.completion = c,
                                 !.intent = i, !.sentiment = s] :
                     c \in Outcomes, i \in {"ok", "error"}, s \in {"ok", "error"}}
             \cup {[NoEnv EXCEPT !.db = "ok", !.completion = c, !.intent = i,
                                 !.sentiment = s, !.profile = p, !.tts = t] :
                     c \in Outcomes, i \in {"ok", "error"}, s \in {"ok", "error"},
                     p \in {"ok", "error"}, t \in {"ok", "error"}}

handle_user_speech(call_sid, speech_result, db, env, default_voice_id, now) ==
    LET apology == generate_response_twiml(PleaseRepeat, None, TRUE)
        unchanged(twiml, used) ==
            [calls |-> db.calls, conversations |-> db.conversations,
             twiml |-> twiml, used |-> used, request |-> << >>,
             classified |-> << >>]
        call_id == SelectCall(db.calls, call_sid)
        conv_id == SelectConversation(db.conversations, call_id)
        conversation == db.conversations[conv_id]
        ai_response == generate_response(env.completion)
        m2 == append_turn(conversation.messages, speech_result, ai_response, now)
        intent_result == detect_intent(env.intent)
        sentiment_result == analyze_sentiment(env.sentiment)
        \* try: intent, then sentiment; except: whatever raised, go on
        conv1 == [conversation EXCEPT
                     !.messages = m2,
                     !.intent = IF intent_result.raised THEN @
                                ELSE intent_result.intent,
                     !.sentiment = IF \/ intent_result.raised
                                      \/ sentiment_result.raised THEN @
                                   ELSE sentiment_result.sentiment]
        convs1 == [db.conversations EXCEPT ![conv_id] = conv1]
        \* the session's rows when only the utterance has been added
        convs0 == [db.conversations EXCEPT
                      ![conv_id].messages =
                          add_message(conversation.messages, "user",
                                      speech_result, now)]
        voice_id == get_active_voice_profile(db.voice_profiles, env.profile)
        audio == text_to_speech(voice_id, default_voice_id, env.tts)
        \* the history is read after the utterance was added to it
        request == build_messages(
                       speech_result,
                       get_messages_for_llm(
                           add_message(conversation.messages, "user",
                                       speech_result, now)),
                       db.calls[call_id].from_number)
        asked == [NoEnv EXCEPT !.db = "ok", !.completion = env.completion,
                                     !.intent = env.intent,
                                     !.sentiment = env.sentiment]
    IN  IF env.db = "call_select"
        THEN unchanged(apology, [NoEnv EXCEPT !.db = "call_select"])
        ELSE IF call_id = 0
        THEN unchanged(generate_hangup_twiml(None), [NoEnv EXCEPT !.db = "ok"])
        ELSE IF env.db = "conv_select"
        THEN unchanged(apology, [NoEnv EXCEPT !.db = "conv_select"])
        ELSE IF conv_id = 0
        THEN unchanged(generate_hangup_twiml(None), [NoEnv EXCEPT !.db = "ok"])
        ELSE IF env.db = "crash"
        THEN [calls |-> db.calls,
              conversations |-> rollback(db.conversations, convs0),
              twiml |-> << >>,
              used |-> [NoEnv EXCEPT !.db = "crash"],
              request |-> request,
              classified |-> << >>]
        ELSE IF env.db = "commit"
        THEN [calls |-> db.calls,
              conversations |-> rollback(db.conversations, convs1),
              twiml |-> apology,
              used |-> [asked EXCEPT !.db = "commit"],
              request |-> request,
              classified |-> << intent_result, sentiment_result >>]
        ELSE [calls |-> db.calls,
              request |-> request,
              classified |-> << intent_result, sentiment_result >>,
              conversations |-> commit_before_synthesis(db.conversations,
                                                        convs1, audio),
              twiml |-> IF audio
                        THEN generate_response_twiml(ai_response,
                                                     save_audio(call_sid), TRUE)
                        ELSE apology,
              used |-> [asked EXCEPT !.profile = env.profile,
                                     !.tts = IF audio THEN "ok" ELSE "error"]]

\* The summary requested for every Conversation found, with or without
\* messages.
should_summarise_any(rows, conv_id) == conv_id # 0

\* `if conversation and conversation.messages`: a Conversation was found and
\* its message list is not empty.
should_summarise(rows, conv_id) ==
    conv_id # 0 /\ rows[conv_id].messages # << >>

\* The completion that stores duration and recording and leaves the status.
complete_call_keeps_status(call, duration, recording_url) ==
    [call EXCEPT !.duration = duration, !.recording_url = recording_url]

\* The completion that keeps a stored recording when it is given none.
complete_call_keeps_recording(call, duration, recording_url) ==
    [call EXCEPT !.status = "completed",
                 !.duration = duration,
                 !.recording_url = IF recording_url = None THEN @
                                   ELSE recording_url]

\* The three assignments handle_call_completed makes to the Call row.
complete_call(call, duration, recording_url) ==
    [call EXCEPT !.status = "completed",
                 !.duration = duration,
                 !.recording_url = recording_url]

\* Outcomes of the external calls of handle_call_completed: the summary is
\* requested only for a Conversation that has messages.
CompletedEnvs(db, call_sid) ==
    LET call_id == SelectCall(db.calls, call_sid)
        conv_id == SelectConversation(db.conversations, call_id)
    IN  IF call_id = 0
        THEN {[NoEnv EXCEPT !.db = d] : d \in {"ok", "call_select"}}
        ELSE {[NoEnv EXCEPT !.db = d] : d \in {"call_select", "conv_select"}}
             \cup (IF should_summarise(db.conversations, conv_id)
                   THEN {[NoEnv EXCEPT !.db = d, !.summary = o] :
                           d \in {"ok", "commit"}, o \in Outcomes}
                   ELSE {[NoEnv EXCEPT !.db = d] : d \in {"ok", "commit"}})

handle_call_completed(call_sid, duration, recording_url, db, env) ==
    LET unchanged(used) ==
            [calls |-> db.calls, conversations |-> db.conversations,
             used |-> used]
        call_id == SelectCall(db.calls, call_sid)
        call1 == complete_call(db.calls[call_id], duration, recording_url)
        conv_id == SelectConversation(db.conversations, call_id)
        summarise == should_summarise(db.conversations, conv_id)
        convs1 == IF summarise
                  THEN [db.conversations EXCEPT
                           ![conv_id].summary = generate_summary(env.summary)]
                  ELSE db.conversations
    IN  IF env.db = "call_select"
        THEN unchanged([NoEnv EXCEPT !.db = "call_select"])
        ELSE IF call_id = 0
        THEN unchanged([NoEnv EXCEPT !.db = "ok"])
        ELSE IF env.db = "conv_select"
        THEN unchanged([NoEnv EXCEPT !.db = "conv_select"])
        ELSE IF env.db = "commit"
        THEN unchanged([NoEnv EXCEPT
                           !.db = "commit",
                           !.summary = IF summarise THEN env.summary ELSE NotUsed])
        ELSE [calls |-> [db.calls EXCEPT ![call_id] = call1],
              conversations |-> convs1,
              used |-> [NoEnv EXCEPT
                           !.db = "ok",
                           !.summary = IF summarise THEN env.summary ELSE NotUsed]]

----------------------------------------------------------------------------
\* The endpoints.

\* int(text) of a string of decimal digits.
RECURSIVE int(_)
int(digits) ==
    IF digits = << >> THEN 0
    ELSE int(SubSeq(digits, 1, Len(digits) - 1)) * 10 + digits[Len(digits)]

Tables == [calls |-> calls, conversations |-> conversations,
           voice_profiles |-> voice_profiles]

NoRequest ==
    [op |-> "none", sid |-> None, speech |-> None, status |-> None,
     duration |-> << >>, recording |-> None, env |-> NoEnv, resp |-> << >>,
     request |-> << >>, classified |-> << >>]

\* The concurrent speech-gathered requests the exploration follows.
Slots == 1 .. MaxConcurrent

\* A request not yet received.  Of a request in flight: the Conversation row
\* its session has read, the order in which it was received and, once it has
\* returned, the order in which it committed and the markup it returned.
NoTurn ==
    [phase |-> "idle", sid |-> None, speech |-> None, conv_id |-> 0,
     row |-> Conversation(0, << >>), received |-> 0, committed |-> 0,
     resp |-> << >>]

\* One more request is handled: remember it and the tables it found.
Handled(request) ==
    /\ events < MaxEvents
    /\ events' = events + 1
    /\ last' = request
    /\ pre' = Tables
    /\ UNCHANGED <<settings, turns>>

Init ==
    /\ calls = << >>
    /\ conversations = << >>
    /\ voice_profiles = {}
    /\ settings \in [elevenlabs_default_voice_id : {None, "default_voice"}]
    /\ last = NoRequest
    /\ pre = [calls |-> << >>, conversations |-> << >>, voice_profiles |-> {}]
    /\ events = 0
    /\ turns = [slot \in Slots |-> NoTurn]

\* POST /webhooks/twilio/voice
VoiceWebhook ==
    \E sid \in Sids, fail \in IncomingFailures :
        \E r \in {handle_incoming_call(sid, FromNumber, ToNumber, Tables, fail)} :
            /\ r.used.fail = "unique" => fail = "none"
            /\ calls' = r.calls
            /\ conversations' = r.conversations
            /\ UNCHANGED voice_profiles
            /\ Handled([NoRequest EXCEPT !.op = "voice", !.sid = sid,
                                         !.env = r.used, !.resp = r.twiml])

\* POST /webhooks/twilio/gather
GatherWebhook ==
    \E sid \in Sids, speech \in SpeechResults :
        \E env \in (IF Truthy(speech) THEN SpeechEnvs(Tables, sid) ELSE {NoEnv}) :
            \E r \in {IF ~Truthy(speech)
                     THEN [calls |-> calls, conversations |-> conversations,
                           twiml |-> NoSpeechTwiml, used |-> NoEnv,
                           request |-> << >>, classified |-> << >>]
                     ELSE handle_user_speech(sid, speech, Tables, env,
                                             settings.elevenlabs_default_voice_id,
                                             events + 1)} :
                /\ r.used = env
                /\ calls' = r.calls
                /\ conversations' = r.conversations
                /\ UNCHANGED voice_profiles
                /\ Handled([NoRequest EXCEPT !.op = "gather", !.sid = sid,
                                             !.speech = speech,
                                             !.env = env, !.resp = r.twiml,
                                             !.request = r.request,
                                             !.classified = r.classified])

\* POST /webhooks/twilio/status: only "completed" reaches the handler.
StatusWebhook ==
    \E sid \in Sids, event \in StatusEvents :
        \E env \in (IF event.status = "completed"
                    THEN CompletedEnvs(Tables, sid) ELSE {NoEnv}) :
            \E r \in {IF event.status = "completed"
                     THEN handle_call_completed(
                              sid,
                              IF event.duration # << >>
                              THEN <<int(event.duration)>> ELSE NoDuration,
                              event.recording, Tables, env)
                     ELSE [calls |-> calls, conversations |-> conversations,
                           used |-> NoEnv]} :
                /\ r.used = env
                /\ calls' = r.calls
                /\ conversations' = r.conversations
                /\ UNCHANGED voice_profiles
                /\ Handled([NoRequest EXCEPT !.op = "status", !.sid = sid,
                                             !.status = event.status,
                                             !.duration = event.duration,
                                             !.recording = event.recording,
                                             !.env = env,
                                             !.resp = << Json("received") >>])

\* The UPDATE that marks the call completed as well.
update_recording_completes(rows, call_sid, recording_url) ==
    [i \in DOMAIN rows |->
        IF rows[i].twilio_call_sid = call_sid
        THEN [rows[i] EXCEPT !.recording_url = recording_url,
                             !.status = "completed"]
        ELSE rows[i]]

\* update(Call).where(Call.twilio_call_sid == CallSid)
\*             .values(recording_url=RecordingUrl)
update_recording(rows, call_sid, recording_url) ==
    [i \in DOMAIN rows |->
        IF rows[i].twilio_call_sid = call_sid
        THEN [rows[i] EXCEPT !.recording_url = recording_url]
        ELSE rows[i]]

\* POST /webhooks/twilio/recording: one UPDATE by session id, then commit.
RecordingWebhook ==
    \E sid \in Sids, recording \in RecordingUrls \ {None}, db \in {"ok", "update"} :
        /\ calls' = IF db = "ok"
                    THEN update_recording(calls, sid, recording)
                    ELSE calls
        /\ UNCHANGED <<conversations, voice_profiles>>
        /\ Handled([NoRequest EXCEPT
                       !.op = "recording", !.sid = sid, !.recording = recording,
                       !.env = [NoEnv EXCEPT !.db = db],
                       !.resp = << Json(IF db = "ok" THEN "received" ELSE "error") >>])

\* POST /api/v1/calls/outbound: the provider places the call and assigns it a
\* session id no other call has; the row is inserted with status initiated.
OutboundCall ==
    \E sid \in Sids, twilio \in {"ok", "error"}, db \in {"ok", "commit"} :
        LET placed == twilio = "ok"
            stored == placed /\ db = "ok" /\ ~UniqueViolation(calls, sid)
        IN  /\ ~UniqueViolation(calls, sid)
            /\ calls' = IF stored
                        THEN Append(calls, Call(sid, "outbound", TwilioPhoneNumber,
                                                ToNumber, "initiated"))
                        ELSE calls
            /\ UNCHANGED <<conversations, voice_profiles>>
            /\ Handled([NoRequest EXCEPT
                           !.op = "outbound", !.sid = sid,
                           !.env = [NoEnv EXCEPT
                                       !.twilio = twilio,
                                       !.db = IF placed THEN db ELSE NotUsed],
                           !.resp = << Json(IF stored THEN "initiated"
                                            ELSE "error") >>])

\* POST /api/v1/voices/clone: a profile for the voice the provider created.
CloneVoice ==
    \E voice_id \in VoiceIds :
        /\ \A p \in voice_profiles : p.elevenlabs_voice_id # voice_id
        /\ voice_profiles' = voice_profiles \cup {VoiceProfile(voice_id)}
        /\ UNCHANGED <<calls, conversations>>
        /\ Handled([NoRequest EXCEPT !.op = "clone",
                                     !.resp = << Json("created") >>])

\* DELETE /api/v1/voices/{voice_id}
DeleteVoice ==
    \E p \in voice_profiles :
        /\ voice_profiles' = voice_profiles \ {p}
        /\ UNCHANGED <<calls, conversations>>
        /\ Handled([NoRequest EXCEPT !.op = "delete_voice",
                                     !.resp = << Json("deleted") >>])

Next ==
    \/ VoiceWebhook
    \/ GatherWebhook
    \/ StatusWebhook
    \/ RecordingWebhook
    \/ OutboundCall
    \/ CloneVoice
    \/ DeleteVoice

Spec == Init /\ [][Next]_vars

----------------------------------------------------------------------------
\* A session under way: the tables after the call-started event of CA123 and
\* one turn of it, every external call of both requests having succeeded.
\* The behaviours from here are those of a call that is already in progress;
\* MaxLater further requests are followed.

EstablishedTables ==
    LET empty == [calls |-> << >>, conversations |-> << >>,
                  voice_profiles |-> {}]
        started == handle_incoming_call("CA123", FromNumber, ToNumber, empty,
                                        "none")
        db == [calls |-> started.calls, conversations |-> started.conversations,
               voice_profiles |-> {}]
        turn == handle_user_speech(
                    "CA123", "Necesito una cita", db,
                    [NoEnv EXCEPT !.db = "ok", !.completion = "ok",
                                  !.intent = "ok", !.sentiment = "ok",
                                  !.profile = "ok", !.tts = "ok"],
                    "default_voice", 0)
    IN  [calls |-> turn.calls, conversations |-> turn.conversations,
         voice_profiles |-> {}]

InitEstablished ==
    /\ calls = EstablishedTables.calls
    /\ conversations = EstablishedTables.conversations
    /\ voice_profiles = EstablishedTables.voice_profiles
    /\ settings = [elevenlabs_default_voice_id |-> "default_voice"]
    /\ last = NoRequest
    /\ pre = EstablishedTables
    /\ events = MaxEvents - MaxLater
    /\ turns = [slot \in Slots |-> NoTurn]

SpecEstablished == InitEstablished /\ [][Next]_vars

----------------------------------------------------------------------------
\* Speech-gathered requests of one session handled at the same time.  Every
\* request has a database session of its own (get_db); the handler suspends
\* at its provider calls, so another request can read the Conversation row
\* between this request's read and its commit.

\* The commit that appends the turn's two messages to the stored sequence.
flush_appending(stored, row) ==
    [stored EXCEPT !.messages = @ \o SubSeq(row.messages,
                                            Len(row.messages) - 1,
                                            Len(row.messages)),
                   !.intent = row.intent,
                   !.sentiment = row.sentiment]

\* db.commit() of a session whose Conversation object is dirty: one UPDATE
\* that writes the object's messages, intent and sentiment over the row,
\* whatever another session has committed since the object was loaded.
flush(stored, row) ==
    [stored EXCEPT !.messages = row.messages,
                   !.intent = row.intent,
                   !.sentiment = row.sentiment]

\* The request is received and its two SELECTs run: the handler holds the
\* Conversation row as stored now.
SpeechReceived(slot) ==
    \E sid \in Sids, speech \in {t \in SpeechResults : Truthy(t)} :
        LET call_id == SelectCall(calls, sid)
            conv_id == SelectConversation(conversations, call_id)
        IN  /\ turns[slot].phase = "idle"
            /\ call_id # 0
            /\ conv_id # 0
            /\ turns' = [turns EXCEPT ![slot] =
                            [NoTurn EXCEPT
                                !.phase = "read", !.sid = sid,
                                !.speech = speech, !.conv_id = conv_id,
                                !.row = conversations[conv_id],
                                !.received =
                                    1 + Cardinality({t \in Slots :
                                            turns[t].phase # "idle"})]]
            /\ UNCHANGED <<calls, conversations, voice_profiles, settings,
                           last, pre, events>>

\* The rest of the turn, on the row the session holds, and its commit.  The
\* turns followed are those whose commit, classification requests and
\* voice-profile query succeed.
SpeechCommitted(slot) ==
    LET turn == turns[slot]
        view == [calls |-> calls,
                 conversations |->
                     [conversations EXCEPT ![turn.conv_id] = turn.row],
                 voice_profiles |-> voice_profiles]
    IN  /\ turn.phase = "read"
        /\ \E env \in {e \in SpeechEnvs(view, turn.sid) :
                            /\ e.db = "ok"
                            /\ e.intent = "ok"
                            /\ e.sentiment = "ok"
                            /\ e.profile = "ok"} :
               \E r \in {handle_user_speech(
                              turn.sid, turn.speech, view, env,
                              settings.elevenlabs_default_voice_id,
                              turn.received)} :
                   /\ r.used = env
                   /\ conversations' =
                          [conversations EXCEPT ![turn.conv_id] =
                              flush(@, r.conversations[turn.conv_id])]
                   /\ turns' = [turns EXCEPT ![slot] =
                                   [turn EXCEPT
                                       !.phase = "done",
                                       !.row = r.conversations[turn.conv_id],
                                       !.committed =
                                           1 + Cardinality({t \in Slots :
                                                   turns[t].phase = "done"}),
                                       !.resp = r.twiml]]
        /\ UNCHANGED <<calls, voice_profiles, settings, last, pre, events>>

NextConcurrent ==
    \/ VoiceWebhook
    \/ \E slot \in Slots : SpeechReceived(slot)
    \/ \E slot \in Slots : SpeechCommitted(slot)

SpecConcurrent == Init /\ [][NextConcurrent]_vars

----------------------------------------------------------------------------
\* Vocabulary of the properties.

\* The ids of the Call rows of a table that carry a session id.
CallsWithSid(rows, call_sid) ==
    {i \in DOMAIN rows : rows[i].twilio_call_sid = call_sid}

\* The Conversation rows of a table that reference one of a set of Calls.
ConversationsOf(rows, call_ids) ==
    {j \in DOMAIN rows : rows[j].call_id \in call_ids}

\* The messages stored for a session id: those of its first Conversation,
\* none when it has no Conversation.
MessagesOf(t, call_sid) ==
    LET cs == ConversationsOf(t.conversations, CallsWithSid(t.calls, call_sid))
    IN  IF cs = {} THEN << >>
        ELSE t.conversations[CHOOSE j \in cs : \A k \in cs : j <= k].messages

\* The markup holds a verb.
HasVerb(twiml, v) == \E i \in DOMAIN twiml : twiml[i].verb = v

\* Markup that ends the call: a hangup and nothing that listens.
IsHangupMarkup(twiml) == HasVerb(twiml, "Hangup") /\ ~HasVerb(twiml, "Gather")

\* The request handled last met no failure of the database or of markup
\* rendering (a rejected duplicate insert is no such failure).
NoInfrastructureFailure ==
    /\ last.env.db \in {NotUsed, "ok"}
    /\ last.env.fail \in {NotUsed, "none", "unique"}

\* The request handled last was a speech-gathered event that reached
\* handle_user_speech and found both rows of its session.
TurnRequested ==
    /\ last.op = "gather"
    /\ Truthy(last.speech)
    /\ ConversationsOf(pre.conversations, CallsWithSid(pre.calls, last.sid)) # {}

----------------------------------------------------------------------------
\* C1 (as stated): after any call-started event that met no infrastructure
\* failure, exactly one Call row and exactly one Conversation row exist for the
\* session id, the Call is in-progress and the Conversation has no messages.
C1_AnyCallStarted ==
    (last.op = "voice" /\ NoInfrastructureFailure) =>
        LET cs == CallsWithSid(calls, last.sid)
        IN  /\ Cardinality(cs) = 1
            /\ \A i \in cs : calls[i].status = "in-progress"
            /\ Cardinality(ConversationsOf(conversations, cs)) = 1
            /\ MessagesOf(Tables, last.sid) = << >>

\* C1 (amended): after a call-started event for a session id that no Call row
\* carried, whose two inserts succeeded, exactly one Call row and exactly one
\* Conversation row exist for the session id, both created by this request,
\* the Call in-progress and the Conversation without messages.
C1_FreshCallStarted ==
    (/\ last.op = "voice"
     /\ CallsWithSid(pre.calls, last.sid) = {}
     /\ last.env.fail \in {"none", "greeting"}) =>
        LET cs == CallsWithSid(calls, last.sid)
            vs == ConversationsOf(conversations, cs)
        IN  /\ cs = {Len(pre.calls) + 1}
            /\ \A i \in cs : calls[i].status = "in-progress"
            /\ vs = {Len(pre.conversations) + 1}
            /\ \A j \in vs : conversations[j].messages = << >>
            /\ Len(calls) = Len(pre.calls) + 1
            /\ Len(conversations) = Len(pre.conversations) + 1

\* A second session is opened while the first one exists.
C1_Witness ==
    /\ last.op = "voice"
    /\ last.env.fail = "none"
    /\ Len(pre.calls) = 1
    /\ Len(calls) = 2
    /\ Len(conversations) = 2

\* C2 (as stated): a speech-gathered event whose session id matches no Call
\* row, handled without infrastructure failure, is answered with hangup markup
\* and leaves every table as it was.
C2_UnknownSessionHangup ==
    (/\ last.op = "gather"
     /\ CallsWithSid(pre.calls, last.sid) = {}
     /\ NoInfrastructureFailure) =>
        /\ IsHangupMarkup(last.resp)
        /\ Tables = pre

\* C2 (amended): a speech-gathered event whose session id matches no Call row
\* leaves every table as it was; it is answered with the bare hangup markup
\* when it carries recognised text and the lookup succeeds, with the
\* re-prompt markup (which listens again) when the text is missing or empty,
\* and with the canned apology (which listens again) when the lookup fails.
C2_UnknownSession ==
    (last.op = "gather" /\ CallsWithSid(pre.calls, last.sid) = {}) =>
        /\ Tables = pre
        /\ (Truthy(last.speech) /\ last.env.db = "ok") =>
               (last.resp = << Hangup >> /\ IsHangupMarkup(last.resp))
        /\ ~Truthy(last.speech) =>
               (last.resp = NoSpeechTwiml /\ HasVerb(last.resp, "Gather"))
        /\ (Truthy(last.speech) /\ last.env.db = "call_select") =>
               last.resp = << Say(PleaseRepeat), Gather(None) >>

\* Speech arrives for a session id without a Call while another session has
\* its rows.
C2_Witness ==
    /\ last.op = "gather"
    /\ Truthy(last.speech)
    /\ last.env.db = "ok"
    /\ CallsWithSid(pre.calls, last.sid) = {}
    /\ Len(calls) = 1
    /\ Len(conversations) = 1
    /\ last.resp = << Hangup >>

\* The role/content pairs of a message sequence.
RolesAndContents(messages) ==
    [i \in DOMAIN messages |-> <<messages[i].role, messages[i].content>>]

\* What the turn handled last stores after the messages found: the utterance
\* as a user message, then a reply as an assistant message.
TurnAppended(reply) ==
    RolesAndContents(MessagesOf(Tables, last.sid)) =
        RolesAndContents(MessagesOf(pre, last.sid))
        \o << <<"user", last.speech>>, <<"assistant", reply>> >>

\* C3 (as stated): every turn of handle_user_speech on an existing Call and
\* Conversation leaves the stored messages equal to those before followed by
\* a user and an assistant message, two more than before.
C3_EveryTurnAppendsTwo ==
    TurnRequested =>
        /\ \E reply \in {ProviderReply, "", FallbackResponse} : TurnAppended(reply)
        /\ Len(MessagesOf(Tables, last.sid)) = Len(MessagesOf(pre, last.sid)) + 2

\* C3 (amended): every turn of handle_user_speech on an existing Call and
\* Conversation whose queries and commit succeed leaves the stored messages
\* equal to those before, each at its position, followed by the utterance as
\* a user message and the reply as an assistant message; a turn whose query
\* or commit fails leaves the stored messages as they were.
C3_CommittedTurnAppendsTwo ==
    TurnRequested =>
        IF last.env.db = "ok"
        THEN /\ \E reply \in {ProviderReply, "", FallbackResponse} :
                    TurnAppended(reply)
             /\ Len(MessagesOf(Tables, last.sid))
                    = Len(MessagesOf(pre, last.sid)) + 2
             /\ \A i \in DOMAIN MessagesOf(pre, last.sid) :
                    MessagesOf(Tables, last.sid)[i] = MessagesOf(pre, last.sid)[i]
        ELSE MessagesOf(Tables, last.sid) = MessagesOf(pre, last.sid)

\* A second turn of a session is committed.
C3_Witness ==
    /\ TurnRequested
    /\ last.env.db = "ok"
    /\ Len(MessagesOf(pre, last.sid)) = 2
    /\ Len(MessagesOf(Tables, last.sid)) = 4

\* The markup handle_user_speech can return: the reply played or the canned
\* apology, each followed by a gather, or the bare hangup.
IsSpeechMarkup(twiml) ==
    \/ twiml = << Hangup >>
    \/ /\ Len(twiml) = 2
       /\ twiml[1].verb \in {"Say", "Play"}
       /\ Truthy(twiml[1].body)
       /\ twiml[2] = Gather(None)

\* C4: when the completion provider fails during handle_user_speech, the
\* handler returns call-control markup, and no assistant message without
\* content is among the messages the turn stored.
C4_CompletionFailure ==
    (last.op = "gather" /\ last.env.completion = "error") =>
        /\ IsSpeechMarkup(last.resp)
        /\ \A i \in DOMAIN MessagesOf(Tables, last.sid) :
               (/\ i > Len(MessagesOf(pre, last.sid))
                /\ MessagesOf(Tables, last.sid)[i].role = "assistant") =>
                   Truthy(MessagesOf(Tables, last.sid)[i].content)

\* The provider fails in a turn that is committed: the fallback text is stored.
C4_Witness ==
    /\ last.op = "gather"
    /\ last.env.completion = "error"
    /\ last.env.db = "ok"
    /\ TurnAppended(FallbackResponse)

\* The intent and sentiment stored for a session id.
LabelsOf(t, call_sid) ==
    LET cs == ConversationsOf(t.conversations, CallsWithSid(t.calls, call_sid))
    IN  IF cs = {} THEN << None, None >>
        ELSE LET c == t.conversations[CHOOSE j \in cs : \A k \in cs : j <= k]
             IN  << c.intent, c.sentiment >>

\* C5: when intent or sentiment classification fails in a turn that is
\* committed, both messages are stored, markup is returned, and the
\* Conversation's intent and sentiment are the ones it had before the turn.
C5_ClassificationFailureKeepsLabels ==
    (/\ TurnRequested
     /\ last.env.db = "ok"
     /\ (last.env.intent = "error" \/ last.env.sentiment = "error")) =>
        /\ Len(MessagesOf(Tables, last.sid)) = Len(MessagesOf(pre, last.sid)) + 2
        /\ IsSpeechMarkup(last.resp)
        /\ LabelsOf(Tables, last.sid) = LabelsOf(pre, last.sid)

\* The summary stored for a session id.
SummaryOf(t, call_sid) ==
    LET cs == ConversationsOf(t.conversations, CallsWithSid(t.calls, call_sid))
    IN  IF cs = {} THEN None
        ELSE t.conversations[CHOOSE j \in cs : \A k \in cs : j <= k].summary

\* The request handled last is the completed status change of a session that
\* had been started and had had one turn, and its database operations
\* succeeded.
CompletedAfterOneTurn ==
    /\ last.op = "status"
    /\ last.status = "completed"
    /\ last.env.db = "ok"
    /\ CallsWithSid(pre.calls, last.sid) # {}
    /\ Len(MessagesOf(pre, last.sid)) = 2

\* The Call of the session is completed with the duration posted, and the
\* Conversation holds the two messages of its one turn.
CompletedRecorded ==
    /\ \A i \in CallsWithSid(calls, last.sid) :
           /\ calls[i].status = "completed"
           /\ last.duration = <<4, 2>> => calls[i].duration = <<42>>
           /\ last.duration = << >> => calls[i].duration = NoDuration
    /\ Len(MessagesOf(Tables, last.sid)) = 2
    /\ MessagesOf(Tables, last.sid)[2].role = "assistant"

\* C6 (as stated): after call-started, one speech-gathered with text and
\* status-changed to completed with duration d on one session id, the
\* Conversation has exactly 2 messages, the last one the assistant's, the Call
\* is completed with duration d, and the summary is a non-empty text.
C6_ScenarioSummaryNonEmpty ==
    CompletedAfterOneTurn =>
        (CompletedRecorded /\ Truthy(SummaryOf(Tables, last.sid)))

\* C6 (amended): after that sequence, handled without database failure, the
\* Conversation has exactly 2 messages, the last one the assistant's, the Call
\* is completed with duration d, and the summary is what the completion
\* provider returned for it: its text, the empty text when it returned no
\* content, or the placeholder "Resumen no disponible" when it failed.
C6_ScenarioSummaryStored ==
    CompletedAfterOneTurn =>
        /\ CompletedRecorded
        /\ last.env.summary = "ok" => SummaryOf(Tables, last.sid) = ProviderSummary
        /\ last.env.summary = "empty" => SummaryOf(Tables, last.sid) = ""
        /\ last.env.summary = "error" =>
               SummaryOf(Tables, last.sid) = SummaryUnavailable
        /\ last.env.summary \in Outcomes

\* The three events in a row, the provider summarising the call.
C6_Witness ==
    /\ events = 3
    /\ CompletedAfterOneTurn
    /\ last.duration = <<4, 2>>
    /\ last.env.summary = "ok"
    /\ SummaryOf(Tables, last.sid) = ProviderSummary

\* C7: when a step of handle_incoming_call fails (the Call insert, the
\* Conversation insert or the rendering of the greeting), the handler returns
\* markup that speaks the apology and hangs up, without a gather.
C7_IncomingFailureHangsUp ==
    (last.op = "voice" /\ last.env.fail # "none") =>
        /\ last.resp = << Say(TechnicalProblem), Hangup >>
        /\ IsHangupMarkup(last.resp)

\* The Conversation insert fails after the Call was committed.
C7_Witness ==
    /\ last.op = "voice"
    /\ last.env.fail = "conv_insert"
    /\ Len(calls) = Len(pre.calls) + 1
    /\ IsHangupMarkup(last.resp)

\* The request handled last is a call-started event for a session id whose
\* Call row an earlier call-started event created.
CallStartedAgain ==
    /\ last.op = "voice"
    /\ last.env.fail \in {"none", "unique"}
    /\ \E i \in CallsWithSid(pre.calls, last.sid) :
           pre.calls[i].direction = "inbound"

\* C8 (as stated): delivering the call-started event of a session id a second
\* time creates a second Call and Conversation pair: two Call rows carry the
\* session id afterwards.
C8_DuplicateCreatesSecondPair ==
    CallStartedAgain => Cardinality(CallsWithSid(calls, last.sid)) = 2

\* C8 (amended): handle_incoming_call is not idempotent in its response only:
\* the second delivery's insert is rejected for the session id's uniqueness,
\* the handler answers with the apology-and-hangup markup instead of the
\* greeting, and the tables stay as they were, with one Call row for the
\* session id.
C8_DuplicateRejected ==
    CallStartedAgain =>
        /\ last.env.fail = "unique"
        /\ last.resp = << Say(TechnicalProblem), Hangup >>
        /\ Tables = pre
        /\ Cardinality(CallsWithSid(calls, last.sid)) = 1

\* The call-started event of a session with a Conversation arrives again.
C8_Witness ==
    /\ CallStartedAgain
    /\ Len(MessagesOf(pre, last.sid)) = 2
    /\ Cardinality(CallsWithSid(calls, last.sid)) = 1

\* C9: no two Call rows carry the same session id, and no request changes the
\* session id of a Call row that existed when it arrived.
C9_SessionIdUniqueImmutable ==
    /\ \A i, j \in DOMAIN calls :
           calls[i].twilio_call_sid = calls[j].twilio_call_sid => i = j
    /\ Len(pre.calls) <= Len(calls)
    /\ \A i \in DOMAIN pre.calls :
           calls[i].twilio_call_sid = pre.calls[i].twilio_call_sid

\* Two sessions exist and a call-started event repeats one of them.
C9_Witness ==
    /\ Len(calls) = 2
    /\ last.op = "voice"
    /\ CallsWithSid(pre.calls, last.sid) # {}

\* Position of a status on the path initiated, in-progress, completed.
StatusRank(status) ==
    CASE status = "initiated" -> 0
      [] status = "in-progress" -> 1
      [] status = "completed" -> 2
      [] OTHER -> 3

\* C10: no request moves a Call backwards on initiated, in-progress,
\* completed: a completed Call stays completed whatever event follows, and an
\* in-progress Call never becomes initiated.
C10_StatusMonotonic ==
    \A i \in DOMAIN pre.calls :
        /\ i \in DOMAIN calls
        /\ StatusRank(pre.calls[i].status) <= StatusRank(calls[i].status)
        /\ pre.calls[i].status = "completed" => calls[i].status = "completed"
        /\ pre.calls[i].status = "in-progress" => calls[i].status # "initiated"

\* A call-started event arrives for a session whose Call is completed.
C10_Witness ==
    /\ last.op = "voice"
    /\ \E i \in CallsWithSid(pre.calls, last.sid) :
           /\ pre.calls[i].status = "completed"
           /\ calls[i].status = "completed"

\* The request handled last is a completed status change for a session id
\* that has a Call row, and its database operations succeeded.
CompletedOnExisting ==
    /\ last.op = "status"
    /\ last.status = "completed"
    /\ last.env.db = "ok"
    /\ CallsWithSid(pre.calls, last.sid) # {}

\* C11: handle_call_completed on an existing session, its database operations
\* succeeding, leaves the Call completed with the duration and the recording
\* reference it was given; it requests a summary exactly when the Conversation
\* exists and has at least one message, stores what the request gave, and
\* otherwise leaves the summary as it was.
C11_CallCompleted ==
    CompletedOnExisting =>
        LET had == Len(MessagesOf(pre, last.sid)) >= 1
        IN  /\ \A i \in CallsWithSid(calls, last.sid) :
                   /\ calls[i].status = "completed"
                   /\ last.duration = <<4, 2>> => calls[i].duration = <<42>>
                   /\ last.duration = << >> => calls[i].duration = NoDuration
                   /\ calls[i].recording_url = last.recording
            /\ (last.env.summary # NotUsed) <=> had
            /\ (had /\ last.env.summary = "ok") =>
                   SummaryOf(Tables, last.sid) = ProviderSummary
            /\ (had /\ last.env.summary = "empty") =>
                   SummaryOf(Tables, last.sid) = ""
            /\ (had /\ last.env.summary = "error") =>
                   SummaryOf(Tables, last.sid) = SummaryUnavailable
            /\ ~had => SummaryOf(Tables, last.sid) = SummaryOf(pre, last.sid)
            /\ MessagesOf(Tables, last.sid) = MessagesOf(pre, last.sid)

\* A call whose Conversation has no message is completed with a duration and
\* a recording: no summary is requested.
C11_Witness ==
    /\ CompletedOnExisting
    /\ ConversationsOf(pre.conversations, CallsWithSid(pre.calls, last.sid)) # {}
    /\ MessagesOf(pre, last.sid) = << >>
    /\ last.duration = <<4, 2>>
    /\ last.recording # None
    /\ last.env.summary = NotUsed
    /\ SummaryOf(Tables, last.sid) = None

\* The request handled last met a failure of the database, of the completion
\* provider or of the synthesis provider.
ProviderOrDatabaseFailure ==
    \/ last.env.db \in {"call_select", "conv_select", "commit"}
    \/ last.env.fail \in {"call_insert", "conv_insert", "unique"}
    \/ last.env.completion = "error"
    \/ last.env.intent = "error"
    \/ last.env.sentiment = "error"
    \/ last.env.summary = "error"
    \/ last.env.tts = "error"

\* The markup speaks one of the canned apologies, or hangs up.
HasApologyOrHangup(twiml) ==
    \/ HasVerb(twiml, "Hangup")
    \/ \E i \in DOMAIN twiml :
           /\ twiml[i].verb = "Say"
           /\ twiml[i].body \in {TechnicalProblem, PleaseRepeat, FallbackResponse}

TurnCommitted == TurnRequested /\ last.env.db = "ok"

\* A voice id was at hand for the synthesis of the turn handled last: an
\* active profile was found, or a default voice is configured.
VoiceAvailable ==
    \/ last.env.profile = "ok" /\ \E p \in pre.voice_profiles : p.is_active
    \/ Truthy(settings.elevenlabs_default_voice_id)

\* C13 (as stated): in a committed turn, when the voice-profile selection or
\* the synthesis fails the response speaks the canned apology, without a play
\* directive, and listens again; when the synthesis succeeds it plays the
\* audio and listens again; it never holds a hangup.
C13_ProfileFailureSpeaksApology ==
    TurnCommitted =>
        /\ (last.env.profile = "error" \/ last.env.tts = "error") =>
               last.resp = << Say(PleaseRepeat), Gather(None) >>
        /\ last.env.tts = "ok" =>
               (last.resp[1].verb = "Play" /\ last.resp[2] = Gather(None))
        /\ ~HasVerb(last.resp, "Hangup")

\* C13 (amended): in a committed turn, when the synthesis fails (the provider
\* fails, or neither an active profile nor a configured default gives a voice
\* id) the response speaks the canned apology, without a play directive, and
\* listens again; when it succeeds the response plays the audio reference and
\* listens again.  A failed voice-profile selection is absorbed: the synthesis
\* is then asked with the configured default voice, and the audio is played
\* when that succeeds.  The response never holds a hangup.
C13_SynthesisFallback ==
    TurnCommitted =>
        /\ last.env.tts = "error" =>
               last.resp = << Say(PleaseRepeat), Gather(None) >>
        /\ last.env.tts = "ok" =>
               /\ Len(last.resp) = 2
               /\ last.resp[1].verb = "Play"
               /\ Truthy(last.resp[1].body)
               /\ last.resp[2] = Gather(None)
               /\ VoiceAvailable
        /\ (last.env.profile = "error" /\ last.env.tts = "ok") =>
               Truthy(settings.elevenlabs_default_voice_id)
        /\ ~VoiceAvailable => last.env.tts = "error"
        /\ ~HasVerb(last.resp, "Hangup")

\* The voice-profile query fails and the audio is played all the same.
C13_Witness ==
    /\ TurnCommitted
    /\ last.env.profile = "error"
    /\ last.env.tts = "ok"
    /\ last.resp[1].verb = "Play"
    /\ last.resp[2] = Gather(None)

\* The turn handled last stopped in the middle: the process died while the
\* reply was awaited, or the commit raised.
TurnFailedMidway == TurnRequested /\ last.env.db \in {"crash", "commit"}

\* C14 (as stated): the writes of a turn are committed step by step, so a
\* turn that stops in the middle leaves its user message stored, the last of
\* the sequence, without an assistant reply.
C14_MidTurnFailureKeepsUtterance ==
    TurnFailedMidway =>
        RolesAndContents(MessagesOf(Tables, last.sid)) =
            RolesAndContents(MessagesOf(pre, last.sid))
            \o << <<"user", last.speech>> >>

\* C14 (amended): the two messages of a turn are committed together, by the
\* one commit of handle_user_speech: a turn that stops in the middle stores
\* nothing, and in every state every stored message sequence is made of
\* whole turns, each user message followed by its assistant reply.
C14_TurnCommittedWhole ==
    /\ TurnFailedMidway => MessagesOf(Tables, last.sid) = MessagesOf(pre, last.sid)
    /\ \A j \in DOMAIN conversations :
           LET m == conversations[j].messages
           IN  /\ Len(m) % 2 = 0
               /\ \A k \in DOMAIN m :
                      m[k].role = (IF k % 2 = 1 THEN "user" ELSE "assistant")

\* The process dies in the second turn of a session: the first turn's two
\* messages are all that is stored.
C14_Witness ==
    /\ TurnRequested
    /\ last.env.db = "crash"
    /\ last.request # << >>
    /\ Len(MessagesOf(pre, last.sid)) = 2
    /\ Len(MessagesOf(Tables, last.sid)) = 2

\* The concurrent turns of a Conversation that have returned.
DoneTurns(conv_id) ==
    {t \in Slots : turns[t].phase = "done" /\ turns[t].conv_id = conv_id}

\* The message sequence a returned turn had read.
ReadBy(t) == SubSeq(turns[t].row.messages, 1, Len(turns[t].row.messages) - 2)

\* C15: nothing serialises two speech-gathered requests of one session: the
\* stored sequence is the one written by the turn that committed last, so when
\* two turns that read the same sequence have both returned their markup and
\* one of them committed last, the stored sequence is 2 messages longer than
\* the one they read, not 4: the other turn's messages are lost.
C15_LastCommitWins ==
    \A j \in DOMAIN conversations :
        \A a \in DoneTurns(j) :
            (\A b \in DoneTurns(j) : turns[b].committed <= turns[a].committed) =>
                /\ conversations[j].messages = turns[a].row.messages
                /\ \A b \in DoneTurns(j) \ {a} :
                       ReadBy(b) = ReadBy(a) =>
                           /\ Len(conversations[j].messages) = Len(ReadBy(a)) + 2
                           /\ Len(conversations[j].messages) < Len(ReadBy(b)) + 4

\* Two turns of one session read the empty sequence, both return markup that
\* listens again, and two messages are stored.
C15_Witness ==
    \E j \in DOMAIN conversations :
        \E a, b \in DoneTurns(j) :
            /\ a # b
            /\ turns[a].sid = turns[b].sid
            /\ ReadBy(a) = ReadBy(b)
            /\ HasVerb(turns[a].resp, "Gather")
            /\ HasVerb(turns[b].resp, "Gather")
            /\ Len(conversations[j].messages) = Len(ReadBy(a)) + 2

\* The role/content pairs of a request to the completion provider.
RequestPairs(request) ==
    [i \in DOMAIN request |-> <<request[i].role, request[i].content>>]

\* The messages of a message list that are the user saying a text.
Utterances(request, text) ==
    {i \in DOMAIN request :
        request[i].role = "user" /\ request[i].content = <<text>>}

\* C16: the message list a turn sends to the completion provider is the
\* system prompt, the messages stored before the turn in their order, the
\* context block with caller number and business name, and the utterance as
\* the final user message; the utterance is in it once.
C16_UtteranceOnce ==
    (TurnRequested /\ last.request # << >>) =>
        /\ RequestPairs(last.request) =
               << <<"system", <<SystemPrompt>> >> >>
               \o [i \in DOMAIN MessagesOf(pre, last.sid) |->
                      << MessagesOf(pre, last.sid)[i].role,
                         << MessagesOf(pre, last.sid)[i].content >> >>]
               \o << <<"system", << "Contexto adicional: ", "Numero: ",
                                    FromNumber, ", Empresa: ", CompanyName >> >>,
                     <<"user", <<last.speech>> >> >>
        /\ Len(MessagesOf(pre, last.sid)) = 0 =>
               Cardinality(Utterances(last.request, last.speech)) = 1

\* The request handled last is a speech-gathered event with text for a
\* session whose Call row exists and has no Conversation row, and both
\* lookups succeeded.
ConversationMissing ==
    /\ last.op = "gather"
    /\ Truthy(last.speech)
    /\ CallsWithSid(pre.calls, last.sid) # {}
    /\ ConversationsOf(pre.conversations, CallsWithSid(pre.calls, last.sid)) = {}
    /\ last.env.db = "ok"

\* C17: a speech-gathered event for a session whose Call row exists and whose
\* Conversation row is missing is answered with hangup markup; no provider is
\* contacted and no row is modified.
C17_MissingConversationHangsUp ==
    ConversationMissing =>
        /\ last.resp = << Hangup >>
        /\ IsHangupMarkup(last.resp)
        /\ last.request = << >>
        /\ last.env = [NoEnv EXCEPT !.db = "ok"]
        /\ Tables = pre

\* Speech arrives for a session without Conversation while another session
\* has one.
C17_Witness ==
    /\ ConversationMissing
    /\ Len(conversations) >= 1
    /\ last.resp = << Hangup >>

\* C18: in every state a Call whose duration is set is completed, and a
\* request that changes a Call's duration is a completed status change that
\* leaves that Call completed.
C18_DurationOnlyWhenCompleted ==
    /\ \A i \in DOMAIN calls :
           calls[i].duration # NoDuration => calls[i].status = "completed"
    /\ \A i \in DOMAIN pre.calls :
           calls[i].duration # pre.calls[i].duration =>
               /\ last.op = "status"
               /\ last.status = "completed"
               /\ calls[i].status = "completed"

\* A call in progress is completed with a duration of 42 seconds.
C18_Witness ==
    /\ last.op = "status"
    /\ \E i \in CallsWithSid(pre.calls, last.sid) :
           /\ pre.calls[i].status = "in-progress"
           /\ pre.calls[i].duration = NoDuration
           /\ calls[i].duration = <<42>>
           /\ calls[i].status = "completed"

\* C19: a Conversation's summary is null until the first completed event of
\* its session, and once a summary is stored no later request changes it.
C19_SummarySetOnce ==
    /\ \A j \in DOMAIN conversations :
           conversations[j].summary # None =>
               calls[conversations[j].call_id].status = "completed"
    /\ \A j \in DOMAIN pre.conversations :
           pre.conversations[j].summary # None =>
               conversations[j].summary = pre.conversations[j].summary

\* C20: in every state each Call row is referenced by at most one
\* Conversation row, and every Conversation row references a Call row that
\* exists.
C20_OneConversationPerCall ==
    /\ \A i \in DOMAIN calls :
           Cardinality(ConversationsOf(conversations, {i})) <= 1
    /\ \A j \in DOMAIN conversations : conversations[j].call_id \in DOMAIN calls

\* Two sessions, each Call with its own Conversation.
C20_Witness ==
    /\ Len(calls) = 2
    /\ Len(conversations) = 2
    /\ conversations[1].call_id = 1
    /\ conversations[2].call_id = 2

\* C21: when the completion provider fails while handle_call_completed asks
\* for the summary, the handler returns, the Call is stored completed with the
\* duration and the recording reference given, and the stored summary is the
\* placeholder text.
C21_SummaryFailureAbsorbed ==
    (CompletedOnExisting /\ last.env.summary = "error") =>
        /\ last.resp = << Json("received") >>
        /\ \A i \in CallsWithSid(calls, last.sid) :
               /\ calls[i].status = "completed"
               /\ last.duration = <<4, 2>> => calls[i].duration = <<42>>
               /\ last.duration = << >> => calls[i].duration = NoDuration
               /\ calls[i].recording_url = last.recording
        /\ SummaryOf(Tables, last.sid) = SummaryUnavailable

\* The summary request of a call of 42 seconds with a recording fails.
C21_Witness ==
    /\ CompletedOnExisting
    /\ last.env.summary = "error"
    /\ last.duration = <<4, 2>>
    /\ last.recording # None
    /\ SummaryOf(pre, last.sid) = None
    /\ SummaryOf(Tables, last.sid) = SummaryUnavailable

C23_TerminalStatusStored ==
    (/\ last.op = "status"
     /\ last.status \in {"busy", "failed", "no-answer", "canceled"}
     /\ CallsWithSid(pre.calls, last.sid) # {}) =>
        \A i \in CallsWithSid(calls, last.sid) : calls[i].status = last.status

CallStartedForOutbound ==
    /\ last.op = "voice"
    /\ \E i \in CallsWithSid(pre.calls, last.sid) :
           pre.calls[i].direction = "outbound"

\* C25: a call-started event for the session id of a call placed through the
\* outbound endpoint inserts nothing, the session id being unique: the
\* response is the apology-and-hangup markup and the tables stay as they were,
\* the Call initiated if it was; in every state no Conversation references an
\* outbound Call.
C25_OutboundCallStarted ==
    /\ CallStartedForOutbound =>
           /\ last.resp = << Say(TechnicalProblem), Hangup >>
           /\ Tables = pre
           /\ Cardinality(CallsWithSid(calls, last.sid)) = 1
    /\ \A i \in DOMAIN calls :
           calls[i].direction = "outbound" =>
               /\ ConversationsOf(conversations, {i}) = {}
               /\ calls[i].status \in {"initiated", "completed"}

\* The call-started webhook of an outbound call that is still initiated.
C25_Witness ==
    /\ CallStartedForOutbound
    /\ last.env.fail = "unique"
    /\ \A i \in CallsWithSid(calls, last.sid) : calls[i].status = "initiated"
    /\ ConversationsOf(conversations, CallsWithSid(calls, last.sid)) = {}

\* The request handled last is a committed turn of a session whose Call was
\* completed when it arrived.
TurnAfterCompleted ==
    /\ TurnCommitted
    /\ \E i \in CallsWithSid(pre.calls, last.sid) :
           pre.calls[i].status = "completed"

\* C26: a speech-gathered event for a session whose Call is completed is
\* handled like any other: the user and the assistant message are appended
\* and the markup listens again; the Call stays completed and the stored
\* summary stays as it was, so it does not cover the new messages.
C26_SpeechAfterCompleted ==
    TurnAfterCompleted =>
        /\ \E reply \in {ProviderReply, "", FallbackResponse} : TurnAppended(reply)
        /\ HasVerb(last.resp, "Gather")
        /\ ~HasVerb(last.resp, "Hangup")
        /\ \A i \in CallsWithSid(calls, last.sid) : calls[i].status = "completed"
        /\ SummaryOf(Tables, last.sid) = SummaryOf(pre, last.sid)

\* A turn is stored after the call was completed and summarised.
C26_Witness ==
    /\ TurnAfterCompleted
    /\ SummaryOf(Tables, last.sid) = ProviderSummary
    /\ Len(MessagesOf(pre, last.sid)) = 2
    /\ Len(MessagesOf(Tables, last.sid)) = 4
    /\ HasVerb(last.resp, "Gather")

\* C27: the recording-ready callback changes the recording reference of the
\* Call with its session id and nothing else (no other field, no other row,
\* nothing when no Call has the session id or when its UPDATE fails); a
\* completed status change without recording reference leaves the Call's
\* recording reference null, whatever was stored.
C27_RecordingReference ==
    /\ last.op = "recording" =>
           /\ conversations = pre.conversations
           /\ voice_profiles = pre.voice_profiles
           /\ Len(calls) = Len(pre.calls)
           /\ \A i \in DOMAIN pre.calls :
                  calls[i] =
                      IF /\ pre.calls[i].twilio_call_sid = last.sid
                         /\ last.env.db = "ok"
                      THEN [pre.calls[i] EXCEPT !.recording_url = last.recording]
                      ELSE pre.calls[i]
           /\ CallsWithSid(pre.calls, last.sid) = {} => Tables = pre
    /\ (CompletedOnExisting /\ last.recording = None) =>
           \A i \in CallsWithSid(calls, last.sid) : calls[i].recording_url = None

\* A call whose recording was stored is completed by an event that carries
\* no recording reference.
C27_Witness ==
    /\ CompletedOnExisting
    /\ last.recording = None
    /\ \E i \in CallsWithSid(pre.calls, last.sid) :
           /\ pre.calls[i].recording_url # None
           /\ calls[i].recording_url = None

\* C28: a speech-gathered webhook whose recognised text is missing or empty
\* is answered by the endpoint itself with the re-prompt markup (speak,
\* gather, hangup), for a known session id as for an unknown one: the handler
\* is not called, no query is run, no provider is contacted and no row
\* changes.
C28_NoSpeechReprompt ==
    (last.op = "gather" /\ last.speech \in {None, ""}) =>
        /\ last.resp = << Say(NotHeard), Gather(None), Hangup >>
        /\ last.env = NoEnv
        /\ last.request = << >>
        /\ last.classified = << >>
        /\ Tables = pre

\* An empty text arrives for a session that has a stored turn.
C28_Witness ==
    /\ last.op = "gather"
    /\ last.speech = ""
    /\ Len(MessagesOf(pre, last.sid)) = 2
    /\ last.resp = NoSpeechTwiml
    /\ Tables = pre

\* C29: the two messages of a turn are committed before the synthesis is
\* attempted: a turn whose synthesis fails is answered with the canned
\* apology and is stored all the same, the utterance and the reply the caller
\* did not hear; the utterance said again appends two further messages.
C29_StoredBeforeSynthesis ==
    (TurnCommitted /\ last.env.tts = "error") =>
        /\ last.resp = << Say(PleaseRepeat), Gather(None) >>
        /\ last.env.completion = "ok" => TurnAppended(ProviderReply)
        /\ last.env.completion = "empty" => TurnAppended("")
        /\ last.env.completion = "error" => TurnAppended(FallbackResponse)
        /\ Len(MessagesOf(Tables, last.sid)) = Len(MessagesOf(pre, last.sid)) + 2

\* No voice is configured, so every synthesis fails: the utterance is said a
\* second time and four messages are stored.
C29_Witness ==
    /\ TurnCommitted
    /\ last.env.tts = "error"
    /\ ~Truthy(settings.elevenlabs_default_voice_id)
    /\ voice_profiles = {}
    /\ last.resp = << Say(PleaseRepeat), Gather(None) >>
    /\ Len(MessagesOf(pre, last.sid)) = 2
    /\ Len(MessagesOf(Tables, last.sid)) = 4
    /\ MessagesOf(Tables, last.sid)[3].content = MessagesOf(Tables, last.sid)[1].content

\* C30: the Call row is committed before the Conversation row is created:
\* when the Conversation insert fails the response is the apology-and-hangup
\* markup, the Call row is stored in-progress and no Conversation references
\* it; and a Call that is in-progress leaves that status only in a completed
\* status change of its session.
C30_CallWithoutConversation ==
    /\ (last.op = "voice" /\ last.env.fail = "conv_insert") =>
           /\ last.resp = << Say(TechnicalProblem), Hangup >>
           /\ Len(calls) = Len(pre.calls) + 1
           /\ calls[Len(calls)].twilio_call_sid = last.sid
           /\ calls[Len(calls)].status = "in-progress"
           /\ conversations = pre.conversations
           /\ ConversationsOf(conversations, {Len(calls)}) = {}
    /\ \A i \in DOMAIN pre.calls :
           (pre.calls[i].status = "in-progress" /\ calls[i].status # "in-progress") =>
               /\ last.op = "status"
               /\ last.status = "completed"
               /\ last.sid = calls[i].twilio_call_sid

\* Speech arrives for the session of an inbound Call left without
\* Conversation: the call is hung up and the row stays in-progress.
C30_Witness ==
    /\ last.op = "gather"
    /\ Truthy(last.speech)
    /\ \E i \in CallsWithSid(pre.calls, last.sid) :
           /\ pre.calls[i].direction = "inbound"
           /\ pre.calls[i].status = "in-progress"
           /\ ConversationsOf(pre.conversations, {i}) = {}
           /\ calls[i].status = "in-progress"
           /\ ConversationsOf(conversations, {i}) = {}

====
